---- MODULE Spec2Model ----
(***************************************************************************)
(* count_lines_in_files(root) of src/count.py as a state machine.          *)
(*                                                                         *)
(* The input is a directory tree (tree): the root path and what is found   *)
(* there, the directories below it and the files in them.  One run walks   *)
(* the tree as os.walk(root) does (top-down, scandir errors swallowed      *)
(* because onerror is None), applies the if/elif chain of exclusion        *)
(* substrings to every yielded foldername, opens every file with an        *)
(* accepted suffix, adds its lines to line_counts, and at the end prints   *)
(* one line per key of line_counts; any exception raised inside the try    *)
(* block ends the run with the single message of the except clause.        *)
(***************************************************************************)
EXTENDS Naturals, Sequences, FiniteSets, TLC

VARIABLES
    tree,         \* the file system under root; never written by the program
    pc,           \* position in count_lines_in_files
    stack,        \* os.walk: directories still to be scanned, top first
    foldername,   \* directory id of the triple the loop body is handling
    todo,         \* filenames of that triple not yet iterated (file ids)
    line_counts,  \* the dict, as its items in insertion order
    idx,          \* position of the report loop in line_counts.items()
    output,       \* lines printed by the current run, oldest first
    scanned,      \* history: directories os.walk listed in the current run
    counted,      \* history: files whose lines were added in the current run
    run,          \* number of the current call of count_lines_in_files
    reports       \* history: output of every finished call, oldest first

vars == <<tree, pc, stack, foldername, todo, line_counts, idx, output,
          scanned, counted, run, reports>>

(***************************************************************************)
(* Bounds of the model.                                                    *)
(***************************************************************************)
MaxEntries == 3   \* directories and files below the root, together
MaxLines == 1     \* lines of one file

(***************************************************************************)
(* Names the trees of the model are built from.                            *)
(***************************************************************************)
RootPaths == {"./", "rebuild"}
DirNames == {"src", "node_modules"}
FileNames == {"a.js", "a.jsx", "a.json"}

(***************************************************************************)
(* String functions of Python used by the code.                            *)
(***************************************************************************)
\* sub in s
Contains(sub, s) ==
    \E i \in 1..(Len(s) + 1) :
        /\ i + Len(sub) - 1 <= Len(s)
        /\ SubSeq(s, i, i + Len(sub) - 1) = sub

\* s.endswith(suf)
EndsWith(s, suf) ==
    /\ Len(suf) <= Len(s)
    /\ SubSeq(s, Len(s) - Len(suf) + 1, Len(s)) = suf

\* os.path.join(a, b) for a name b that holds no separator
Join(a, b) ==
    IF a = "" \/ EndsWith(a, "/") THEN a \o b ELSE a \o "/" \o b

\* faulty variant: filename.split('.')[0], what precedes the first dot
LastField_First(filename) ==
    LET dots == {i \in 1..Len(filename) : SubSeq(filename, i, i) = "."}
    IN  IF dots = {} THEN filename
        ELSE LET first == CHOOSE i \in dots : \A j \in dots : i <= j
             IN  SubSeq(filename, 1, first - 1)

\* filename.split('.')[-1]: what follows the last dot, or the whole name
LastField(filename) ==
    LET dots == {i \in 1..Len(filename) : SubSeq(filename, i, i) = "."}
    IN  IF dots = {} THEN filename
        ELSE LET last == CHOOSE i \in dots : \A j \in dots : j <= i
             IN  SubSeq(filename, last + 1, Len(filename))

(***************************************************************************)
(* The tests of the loop body.                                             *)
(***************************************************************************)
\* the if/elif chain on foldername, in the order of the code
ExclusionChain ==
    <<"node_modules", ".git", ".vscode", "__pycache__", "venv", ".next",
      "build", "target", "github">>

\* some branch of the chain is taken, and the body ends in continue
Excluded(path) ==
    \E i \in DOMAIN ExclusionChain : Contains(ExclusionChain[i], path)

AcceptedSuffixes == <<".jsx", ".js", ".css", ".rs">>

\* faulty variant: the suffix is looked for anywhere in the name
Qualifies_Anywhere(filename) ==
    \E i \in DOMAIN AcceptedSuffixes : Contains(AcceptedSuffixes[i], filename)

\* filename.endswith(('.jsx', '.js', '.css', '.rs'))
Qualifies(filename) ==
    \E i \in DOMAIN AcceptedSuffixes : EndsWith(filename, AcceptedSuffixes[i])

(***************************************************************************)
(* The dict line_counts, as the sequence of its items in insertion order.  *)
(***************************************************************************)
Keys(lc) == {lc[i].file_type : i \in DOMAIN lc}

Get(lc, k) ==
    IF k \in Keys(lc)
    THEN lc[CHOOSE i \in DOMAIN lc : lc[i].file_type = k].count
    ELSE 0

\* faulty variant: line_counts[file_type] = file_lines in both branches
AddLines_Overwrite(lc, file_type, file_lines) ==
    IF file_type \in Keys(lc)
    THEN [i \in DOMAIN lc |->
            IF lc[i].file_type = file_type
            THEN [lc[i] EXCEPT !.count = file_lines]
            ELSE lc[i]]
    ELSE Append(lc, [file_type |-> file_type, count |-> file_lines])

\* if file_type in line_counts: += file_lines, else: = file_lines
AddLines(lc, file_type, file_lines) ==
    IF file_type \in Keys(lc)
    THEN [i \in DOMAIN lc |->
            IF lc[i].file_type = file_type
            THEN [lc[i] EXCEPT !.count = @ + file_lines]
            ELSE lc[i]]
    ELSE Append(lc, [file_type |-> file_type, count |-> file_lines])

(***************************************************************************)
(* The tree.  Directory 0 is the root; directory d > 0 lies in directory   *)
(* parent < d.  A directory that cannot be listed (listable = FALSE)       *)
(* makes os.scandir raise; a file that cannot be opened or decoded as      *)
(* UTF-8 (ok = FALSE) makes open or the iteration over its lines raise.    *)
(***************************************************************************)
RootKinds == {"dir", "missing", "file"}

DirIds == DOMAIN tree.dirs
FileIds == DOMAIN tree.files

\* faulty variant: the name of the directory instead of its path from root
Path_NameOnly(d) ==
    IF d = 0 THEN tree.root ELSE tree.dirs[d].name

\* os.path.join(top, dirname) along the way from root
RECURSIVE Path(_)
Path(d) ==
    IF d = 0 THEN tree.root
    ELSE Join(Path(tree.dirs[d].parent), tree.dirs[d].name)

\* os.scandir(top) succeeds
Listable(d) ==
    IF d = 0 THEN tree.kind = "dir" ELSE tree.dirs[d].listable

\* the dirs and nondirs os.walk collects for directory d
Subfolders(d) == {c \in DirIds : tree.dirs[c].parent = d}
Filenames(d) == {f \in FileIds : tree.files[f].dir = d}

\* the orders in which scandir may have returned the entries of S
Orders(S) ==
    {s \in [1..Cardinality(S) -> S] :
        \A i, j \in 1..Cardinality(S) : s[i] = s[j] => i = j}

\* the ways to put n directories below the root: directory d lies in an
\* earlier one
RECURSIVE DirSeqs(_)
DirSeqs(n) ==
    IF n = 0 THEN {<<>>}
    ELSE {Append(ds, r) :
            ds \in DirSeqs(n - 1),
            r \in [parent : 0..(n - 1), name : DirNames, listable : BOOLEAN]}

\* the ways to put n files into the directories 0..nd; lines is what reading
\* the file to its end yields, and is left at 0 for a file that cannot be read
RECURSIVE FileSeqs(_, _)
FileSeqs(n, nd) ==
    IF n = 0 THEN {<<>>}
    ELSE {Append(fs, r) :
            fs \in FileSeqs(n - 1, nd),
            r \in [dir : 0..nd, name : FileNames, lines : 0..MaxLines,
                   ok : {TRUE}]
                  \cup [dir : 0..nd, name : FileNames, lines : {0},
                        ok : {FALSE}]}

\* no two entries of one directory share a name; the files are numbered
\* directory by directory, so that a tree is not drawn twice
UniqueNames(ds, fs) ==
    /\ \A d, e \in DOMAIN ds :
          (d # e /\ ds[d].parent = ds[e].parent) => ds[d].name # ds[e].name
    /\ \A f, g \in DOMAIN fs :
          /\ f < g => fs[f].dir <= fs[g].dir
          /\ (f # g /\ fs[f].dir = fs[g].dir) => fs[f].name # fs[g].name

\* tree is one of the bounded trees; a root that is missing or is a regular
\* file has nothing below it
IsTree(t) ==
    \/ /\ t \in [kind : RootKinds \ {"dir"}, root : RootPaths,
                 dirs : {<<>>}, files : {<<>>}]
    \/ \E nd \in 0..MaxEntries :
       \E nf \in 0..(MaxEntries - nd) :
          \E r \in RootPaths, ds \in DirSeqs(nd), fs \in FileSeqs(nf, nd) :
              /\ UniqueNames(ds, fs)
              /\ t = [kind |-> "dir", root |-> r, dirs |-> ds, files |-> fs]

(***************************************************************************)
(* What print writes.                                                      *)
(***************************************************************************)
\* print(f"{file_type}: {count} lines")
CountLine(item) ==
    [kind |-> "count", file_type |-> item.file_type, count |-> item.count]

\* print(f"An error occurred: {e}")
ErrorLine == [kind |-> "error", file_type |-> "", count |-> 0]

(***************************************************************************)
(* One call of count_lines_in_files.                                       *)
(***************************************************************************)
Init ==
    /\ IsTree(tree)
    /\ run = 1
    /\ reports = <<>>
    \* line_counts = {}; os.walk(root) starts with stack = [top]
    /\ pc = "walk"
    /\ stack = <<0>>
    /\ foldername = 0
    /\ todo = {}
    /\ line_counts = <<>>
    /\ idx = 1
    /\ output = <<>>
    /\ scanned = {}
    /\ counted = {}

\* os.walk: scandir(top) raises OSError, onerror is None, the directory is dropped
ScanError ==
    /\ pc = "walk"
    /\ stack # <<>>
    /\ ~Listable(Head(stack))
    /\ stack' = Tail(stack)
    /\ UNCHANGED <<tree, pc, foldername, todo, line_counts, idx, output,
                   scanned, counted, run, reports>>

\* os.walk resumes after the yield and pushes the subfolders of top
Descend(top, rest) ==
    \E order \in Orders(Subfolders(top)) : stack' = order \o rest

\* the triple of an excluded foldername: continue
SkipFolder ==
    /\ pc = "walk"
    /\ stack # <<>>
    /\ Listable(Head(stack))
    /\ Excluded(Path(Head(stack)))
    /\ scanned' = scanned \cup {Head(stack)}
    /\ Descend(Head(stack), Tail(stack))
    /\ UNCHANGED <<tree, pc, foldername, todo, line_counts, idx, output,
                   counted, run, reports>>

\* the triple of any other foldername: the loop over filenames starts
EnterFolder ==
    /\ pc = "walk"
    /\ stack # <<>>
    /\ Listable(Head(stack))
    /\ ~Excluded(Path(Head(stack)))
    /\ scanned' = scanned \cup {Head(stack)}
    /\ foldername' = Head(stack)
    /\ todo' = Filenames(Head(stack))
    /\ stack' = Tail(stack)
    /\ pc' = "files"
    /\ UNCHANGED <<tree, line_counts, idx, output, counted, run, reports>>

\* a filename without an accepted suffix
PassFile ==
    /\ pc = "files"
    /\ \E f \in todo :
          /\ ~Qualifies(tree.files[f].name)
          /\ todo' = todo \ {f}
    /\ UNCHANGED <<tree, pc, stack, foldername, line_counts, idx, output,
                   scanned, counted, run, reports>>

\* a filename with an accepted suffix, opened and read to its end
CountFile ==
    /\ pc = "files"
    /\ \E f \in todo :
          /\ Qualifies(tree.files[f].name)
          /\ tree.files[f].ok
          /\ line_counts' = AddLines(line_counts,
                                     LastField(tree.files[f].name),
                                     tree.files[f].lines)
          /\ counted' = counted \cup {f}
          /\ todo' = todo \ {f}
    /\ UNCHANGED <<tree, pc, stack, foldername, idx, output, scanned, run,
                   reports>>

\* faulty variant: the handler sits inside the loop over filenames, which goes on
FileError_Continue ==
    /\ pc = "files"
    /\ \E f \in todo :
          /\ Qualifies(tree.files[f].name)
          /\ ~tree.files[f].ok
          /\ todo' = todo \ {f}
    /\ output' = Append(output, ErrorLine)
    /\ UNCHANGED <<tree, pc, stack, foldername, line_counts, idx, scanned,
                   counted, run, reports>>

\* open or the read raises: the except clause prints and the call returns
FileError ==
    /\ pc = "files"
    /\ \E f \in todo :
          /\ Qualifies(tree.files[f].name)
          /\ ~tree.files[f].ok
    /\ output' = Append(output, ErrorLine)
    /\ reports' = Append(reports, output')
    /\ pc' = "done"
    /\ UNCHANGED <<tree, stack, foldername, todo, line_counts, idx, scanned,
                   counted, run>>

\* the loop over filenames is exhausted: back into os.walk
LeaveFolder ==
    /\ pc = "files"
    /\ todo = {}
    /\ Descend(foldername, stack)
    /\ pc' = "walk"
    /\ UNCHANGED <<tree, foldername, todo, line_counts, idx, output, scanned,
                   counted, run, reports>>

\* os.walk is exhausted: the loop over line_counts.items() starts
EndWalk ==
    /\ pc = "walk"
    /\ stack = <<>>
    /\ pc' = "report"
    /\ idx' = 1
    /\ UNCHANGED <<tree, stack, foldername, todo, line_counts, output,
                   scanned, counted, run, reports>>

\* one print of the report loop
PrintLine ==
    /\ pc = "report"
    /\ idx <= Len(line_counts)
    /\ output' = Append(output, CountLine(line_counts[idx]))
    /\ idx' = idx + 1
    /\ UNCHANGED <<tree, pc, stack, foldername, todo, line_counts, scanned,
                   counted, run, reports>>

\* faulty variant: a total is printed after the category lines
Return_WithTotal ==
    /\ pc = "report"
    /\ idx > Len(line_counts)
    /\ output' = Append(output, [kind |-> "count", file_type |-> "total",
                                 count |-> 0])
    /\ reports' = Append(reports, output')
    /\ pc' = "done"
    /\ UNCHANGED <<tree, stack, foldername, todo, line_counts, idx,
                   scanned, counted, run>>

\* the report loop is exhausted: the call returns
Return ==
    /\ pc = "report"
    /\ idx > Len(line_counts)
    /\ reports' = Append(reports, output)
    /\ pc' = "done"
    /\ UNCHANGED <<tree, stack, foldername, todo, line_counts, idx, output,
                   scanned, counted, run>>

\* faulty variant: line_counts is a module-level dict that outlives the call
CallAgain_KeepCounts ==
    /\ pc = "done"
    /\ run = 1
    /\ run' = 2
    /\ pc' = "walk"
    /\ stack' = <<0>>
    /\ foldername' = 0
    /\ todo' = {}
    /\ idx' = 1
    /\ output' = <<>>
    /\ scanned' = {}
    /\ counted' = {}
    /\ UNCHANGED <<tree, line_counts, reports>>

\* count_lines_in_files(root) is called again on the same tree
CallAgain ==
    /\ pc = "done"
    /\ run = 1
    /\ run' = 2
    /\ pc' = "walk"
    /\ stack' = <<0>>
    /\ foldername' = 0
    /\ todo' = {}
    /\ line_counts' = <<>>
    /\ idx' = 1
    /\ output' = <<>>
    /\ scanned' = {}
    /\ counted' = {}
    /\ UNCHANGED <<tree, reports>>

Next ==
    \/ ScanError
    \/ SkipFolder
    \/ EnterFolder
    \/ PassFile
    \/ CountFile
    \/ FileError
    \/ LeaveFolder
    \/ EndWalk
    \/ PrintLine
    \/ Return
    \/ CallAgain

Spec == Init /\ [][Next]_vars

(***************************************************************************)
(* Vocabulary of the claims: the exclusion substrings and the suffixes as  *)
(* the specification lists them, and what it calls a file inside an        *)
(* excluded directory.                                                     *)
(***************************************************************************)
ExclusionSubstrings ==
    {"node_modules", ".git", ".vscode", "__pycache__", "venv", ".next",
     "build", "target", "github"}

SuffixKeys == {"jsx", "js", "css", "rs"}

Matches(path) == \E e \in ExclusionSubstrings : Contains(e, path)

\* d and the directories d lies in, up to the root
RECURSIVE Above(_)
Above(d) == IF d = 0 THEN {0} ELSE {d} \cup Above(tree.dirs[d].parent)

\* d is, or lies in, a directory whose path matches an exclusion
InExcluded(d) == \E a \in Above(d) : Matches(Path(a))

HasSuffix(f, k) == EndsWith(tree.files[f].name, "." \o k)

\* the files the report is about: accepted suffix, not in an excluded directory
Wanted == {f \in FileIds :
              /\ \E k \in SuffixKeys : HasSuffix(f, k)
              /\ ~InExcluded(tree.files[f].dir)}

WantedOf(k) == {f \in Wanted : HasSuffix(f, k)}

RECURSIVE SumLines(_)
SumLines(S) ==
    IF S = {} THEN 0
    ELSE LET f == CHOOSE x \in S : TRUE
         IN  tree.files[f].lines + SumLines(S \ {f})

Lines(out) == {out[i] : i \in DOMAIN out}
CountLines(out) == {l \in Lines(out) : l.kind = "count"}
ErrorLines(out) == {i \in DOMAIN out : out[i].kind = "error"}

\* the report of the files in S: one line per key that has a file
ReportOf(S) ==
    {[kind |-> "count", file_type |-> k,
      count |-> SumLines({f \in S : HasSuffix(f, k)})] :
        k \in {j \in SuffixKeys : \E f \in S : HasSuffix(f, j)}}

AllReadable == \A f \in FileIds : tree.files[f].ok
AllListable == \A d \in DirIds : tree.dirs[d].listable

(***************************************************************************)
(* C1.  Every file whose lines have been added to line_counts lies in a    *)
(* directory whose path holds none of the nine exclusion substrings (nor   *)
(* does the path of any directory above it), and its name ends with one    *)
(* of .jsx, .js, .css, .rs.                                                *)
(***************************************************************************)
C1_CountedFilesQualify ==
    \A f \in counted :
        /\ ~Matches(Path(tree.files[f].dir))
        /\ ~InExcluded(tree.files[f].dir)
        /\ \E k \in SuffixKeys : HasSuffix(f, k)

\* a finished run that counted a file and left out a readable .js/.jsx file
\* of an excluded directory
C1_Witness ==
    /\ pc = "done"
    /\ counted # {}
    /\ \E f \in FileIds \ counted :
          /\ tree.files[f].ok
          /\ \E k \in SuffixKeys : HasSuffix(f, k)
          /\ InExcluded(tree.files[f].dir)

C3_BadFileIsSkipped ==
    (pc = "done" /\ tree.kind = "dir" /\ AllListable)
        => CountLines(output) = ReportOf({f \in Wanted : tree.files[f].ok})

(***************************************************************************)
(* C4.  As claimed: a root that does not exist or is not a directory ends  *)
(* the run in an error outcome.  os.walk swallows the error of scandir,    *)
(* so the run finishes as a success with an empty report.                  *)
(***************************************************************************)
C4_BadRootIsAnError ==
    (pc = "done" /\ tree.kind # "dir") => ErrorLines(output) # {}

(***************************************************************************)
(* C5.  When the root is a directory with no qualifying file below it      *)
(* (none at all, or none with an accepted suffix outside the excluded      *)
(* directories), the run finishes with nothing printed: no category line   *)
(* and no error message.                                                   *)
(***************************************************************************)
C5_NothingToReport ==
    \/ /\ output = <<>>
       /\ line_counts = <<>>
       /\ pc = "done" => reports[Len(reports)] = <<>>
    \/ ~(tree.kind = "dir" /\ Wanted = {})

\* a finished run on a root that holds files, none of them qualifying
C5_Witness ==
    /\ pc = "done"
    /\ tree.kind = "dir"
    /\ Wanted = {}
    /\ Cardinality(FileIds) >= 2
    /\ \E f \in FileIds : ~tree.files[f].ok
    /\ output = <<>>

(***************************************************************************)
(* C6.  Two calls on the same unchanged tree print the same report: the    *)
(* same category lines with the same counts, whatever order the entries    *)
(* of a directory come in.                                                 *)
(***************************************************************************)
C6_SameReportTwice ==
    Len(reports) = 2
        => /\ Lines(reports[1]) = Lines(reports[2])
           /\ Len(reports[1]) = Len(reports[2])

\* two finished calls whose report has two category lines, one above zero
C6_Witness ==
    /\ Len(reports) = 2
    /\ Cardinality(CountLines(reports[2])) = 2
    /\ \E l \in CountLines(reports[2]) : l.count > 0

(***************************************************************************)
(* C7.  As claimed: the walker never descends into a directory that        *)
(* matches an exclusion, so no directory below one is ever listed.  The    *)
(* body only continues; os.walk goes on into the subfolders and lists      *)
(* them.                                                                   *)
(***************************************************************************)
C7_ExcludedIsPruned ==
    \A d \in scanned \ {0} : ~InExcluded(tree.dirs[d].parent)

(***************************************************************************)
(* C8.  line_counts is empty when a call starts, and within a call every   *)
(* step keeps every key and lowers no count; the step that counts a file   *)
(* adds that file's lines to the key of its extension and leaves every     *)
(* other key as it was; every other step leaves line_counts as it was.     *)
(***************************************************************************)
C8_Step ==
    /\ run' # run => line_counts' = <<>>
    /\ run' = run =>
          /\ \A k \in Keys(line_counts) :
                /\ k \in Keys(line_counts')
                /\ Get(line_counts', k) >= Get(line_counts, k)
          /\ counted' = counted => line_counts' = line_counts
          /\ \A f \in counted' \ counted :
                \E k \in SuffixKeys :
                   /\ HasSuffix(f, k)
                   /\ Keys(line_counts') = Keys(line_counts) \cup {k}
                   /\ Get(line_counts', k)
                         = Get(line_counts, k) + tree.files[f].lines
                   /\ \A j \in Keys(line_counts) \ {k} :
                         Get(line_counts', j) = Get(line_counts, j)

C8_AdditiveOnly == (line_counts = <<>>) /\ [][C8_Step]_vars

\* line_counts holds two keys, both above zero
C8_Witness ==
    /\ Len(line_counts) = 2
    /\ Cardinality(counted) = 2
    /\ \A i \in DOMAIN line_counts : line_counts[i].count >= 1

(***************************************************************************)
(* C9.  Category lines are printed only once the traversal is over, and a  *)
(* finished run has printed either one line for every key of line_counts   *)
(* and no error message, or the error message alone.                       *)
(***************************************************************************)
C9_AllOrNothing ==
    /\ CountLines(output) # {} =>
          /\ pc \in {"report", "done"}
          /\ stack = <<>>
          /\ todo = {}
    /\ pc = "done" =>
          \/ /\ ErrorLines(output) = {}
             /\ output = [i \in DOMAIN line_counts |-> CountLine(line_counts[i])]
          \/ output = <<ErrorLine>>

\* a finished run that had counted a file when another raised, and one
\* that printed two category lines
C9_Witness ==
    \/ /\ pc = "done"
       /\ counted # {}
       /\ line_counts # <<>>
       /\ output = <<ErrorLine>>
       /\ run = 2
    \/ /\ pc = "done"
       /\ Len(output) = 2
       /\ ErrorLines(output) = {}
       /\ run = 2

(***************************************************************************)
(* C10.  When the path of the root itself holds an exclusion substring,    *)
(* no file at any depth is counted, nothing is printed and no error is     *)
(* reported.                                                               *)
(***************************************************************************)
C10_ExcludedRoot ==
    \/ /\ counted = {}
       /\ line_counts = <<>>
       /\ output = <<>>
    \/ ~(tree.kind = "dir" /\ Matches(tree.root))

\* a finished run on the root "rebuild" with a readable and an unreadable
\* .js/.jsx file below it, one of them in a subdirectory
C10_Witness ==
    /\ pc = "done"
    /\ tree.kind = "dir"
    /\ Matches(tree.root)
    /\ \E f, g \in FileIds :
          /\ tree.files[f].ok
          /\ ~tree.files[g].ok
          /\ tree.files[f].dir # 0
          /\ \E k \in SuffixKeys : HasSuffix(f, k)
          /\ \E k \in SuffixKeys : HasSuffix(g, k)

====
